---- MODULE Spec2Model ----
(***************************************************************************)
(* Model of crates/live_kit_client/src/live_kit_client.rs: the bridge      *)
(* between the async host API and the reference-counted native LiveKit     *)
(* layer.                                                                  *)
(*                                                                         *)
(* Five specifications share the variables:                                *)
(*   Spec        the Room (an Arc with a raw Weak held by its delegate),   *)
(*               the delegate trampolines and the subscriber fan-out;      *)
(*   SpecBridge  the one-shot completion bridge (connect,                  *)
(*               publish_video_track), display_sources, MacOSDisplay and   *)
(*               LocalVideoTrack;                                          *)
(*   SpecTracks  remote_video_tracks, RemoteVideoTrack and add_renderer;   *)
(*   SpecHandles every step that stores a native handle in a wrapper;      *)
(*   SpecLock    the fan-out with the subscriber lock taken step by step.  *)
(***************************************************************************)
EXTENDS Integers, Sequences, FiniteSets, TLC

\* ------------------------------------------------------------------ bounds
MaxSubs == 2        \* calls of remote_video_track_updates
MaxEvents == 2      \* delegate trampoline invocations by the native layer
WordBits == 8       \* width of the Arc counters (stands for usize)

CountMod == 2 ^ WordBits

NULL == "NULL"
Threads == {"n1"}                \* the native thread running delegate trampolines
Tracks == {"t1", "t2"}           \* native remote track handles (sid = name)
Publishers == {"p1"}
Displays == {"d1", "d2"}          \* native display handles
Handles == {"room", "delegate", "local", "renderer"} \cup Tracks \cup Displays
Subs == 1 .. MaxSubs
Wrappers == 1 .. MaxEvents       \* RemoteVideoTrack wrapper instances

VARIABLES
    hostRefs,      \* Arc<Room> values the host holds
    strong,        \* ArcInner<Room>.strong
    weak,          \* ArcInner<Room>.weak (Weak values, +1 while strong > 0)
    alloc,         \* the ArcInner<Room> allocation is live
    ub,            \* freed memory has been accessed
    crashed,       \* the process has aborted
    td,            \* position of Arc::drop_slow / drop of the Room
    tdBy,          \* who runs it: "host" or a native thread
    tdLog,         \* history: the teardown steps taken, in order
    rawWeakDrops,  \* history: who dropped a Weak rebuilt from the raw pointer
    subscribers,   \* Room.remote_video_track_subscribers (sender ids)
    nSubs,         \* channels created so far
    rxAlive,       \* the receiver of channel s has not been dropped
    queue,         \* messages in flight in channel s
    received,      \* history: what the receiver of channel s took out
    regAt,         \* history: Len(log) when channel s was registered
    log,           \* history: events published, in call order
    tramp,         \* per native thread: the delegate trampoline it runs
    nInv,          \* trampoline invocations so far
    trackRefs,     \* Arc<RemoteVideoTrack> strong count per wrapper
    wrapped,       \* RemoteVideoTrack.native_track per wrapper (NULL: none yet)
    owned,         \* per native handle: create / CFRetain calls minus CFRelease calls
    delegateLive,  \* CFRelease(native_delegate) has not been called
    ops,           \* the one-shot operations in flight: connect, publish, displays
    last,          \* history: the one-shot operation that ended last
    hostDisplays,  \* MacOSDisplay wrappers the host holds, per handle
    localTracks,   \* LocalVideoTrack wrappers the host holds
    hostTracks,    \* RemoteVideoTrack wrappers from remote_video_tracks
    closures,      \* add_renderer: per renderer, the boxed closure
    lock,          \* holder of the Mutex around the subscriber Vec, or "free"
    iter           \* per thread: its position inside retain() under the lock

roomVars == <<hostRefs, strong, weak, alloc, ub, crashed, td, tdBy, tdLog,
              rawWeakDrops>>
fanVars == <<subscribers, nSubs, rxAlive, queue, received, regAt, log>>
trackVars == <<trackRefs, wrapped, owned, delegateLive>>
lockVars == <<lock, iter>>
hostVars == <<ops, last, hostDisplays, localTracks, hostTracks, closures,
              lockVars>>
vars == <<roomVars, fanVars, trackVars, tramp, nInv, hostVars>>

Idle == [pc |-> "idle", kind |-> "none"]

\* threads that publish through did_subscribe_to_remote_video_track /
\* did_unsubscribe_from_remote_video_track at the same time
LockThreads == {"n1", "n2"}

\* a thread that is not inside retain(); n: the publishes it has completed
IdleIter ==
    [pc |-> "idle",
     ev |-> [type |-> "none", w |-> 0, track_id |-> NULL, publisher_id |-> NULL],
     at |-> 0, kept |-> <<>>, n |-> 0]

\* RemoteVideoTrackUpdate
Subscribed(w, sid, pub) ==
    [type |-> "Subscribed", w |-> w, track_id |-> sid, publisher_id |-> pub]
Unsubscribed(pub, tid) ==
    [type |-> "Unsubscribed", w |-> 0, track_id |-> tid, publisher_id |-> pub]

Range(s) == {s[i] : i \in DOMAIN s}

\* Room::new: Arc::new_cyclic, RoomDelegate::new (Weak::into_raw,
\* LKRoomDelegateCreate), LKRoomCreate; the host holds the one Arc.
Init ==
    /\ hostRefs = 1
    /\ strong = 1
    /\ weak = 2
    /\ alloc = TRUE
    /\ ub = FALSE
    /\ crashed = FALSE
    /\ td = "none"
    /\ tdBy = "nobody"
    /\ tdLog = <<>>
    /\ rawWeakDrops = <<>>
    /\ subscribers = <<>>
    /\ nSubs = 0
    /\ rxAlive = [s \in Subs |-> FALSE]
    /\ queue = [s \in Subs |-> <<>>]
    /\ received = [s \in Subs |-> <<>>]
    /\ regAt = [s \in Subs |-> 0]
    /\ log = <<>>
    /\ tramp = [t \in Threads |-> Idle]
    /\ nInv = 0
    /\ trackRefs = [w \in Wrappers |-> 0]
    /\ wrapped = [w \in Wrappers |-> NULL]
    /\ owned = [h \in Handles |-> IF h \in {"room", "delegate"} THEN 1 ELSE 0]
    /\ delegateLive = TRUE
    /\ ops = <<>>
    /\ last = [kind |-> "none",
               arg |-> [array |-> FALSE, sources |-> <<>>, error |-> NULL,
                        fired |-> FALSE],
               out |-> [tag |-> "none", displays |-> <<>>, cause |-> NULL,
                        context |-> NULL],
               lost |-> FALSE, awaited |-> FALSE]
    /\ hostDisplays = [d \in Displays |-> 0]
    /\ localTracks = 0
    /\ hostTracks = <<>>
    /\ closures = <<>>
    /\ lock = "free"
    /\ iter = [t \in LockThreads |-> IdleIter]

\* ------------------------------------------------------- Arc<Room> memory

\* fetch_sub(1) on a usize counter
FetchSub(n) == (n - 1) % CountMod

\* An access to the ArcInner: on freed memory it is a use after free.  The
\* build either keeps going on the stale contents or aborts (Crash).
Touch == ub' = (ub \/ ~alloc)

\* Weak::drop on the Room's ArcInner: the allocation is freed when the count
\* was 1.
WeakDrop(who) ==
    /\ weak' = FetchSub(weak)
    /\ alloc' = (alloc /\ weak # 1)
    /\ rawWeakDrops' = Append(rawWeakDrops, who)
    /\ Touch

\* ------------------------------------------------------------- fan-out

\* faulty variant of Kept: a failed send does not remove the sender
KeptAll(subs, alive) == subs

\* Vec::retain(|tx| tx.unbounded_send(..).is_ok()): the senders kept
Kept(subs, alive) == SelectSeq(subs, LAMBDA s : alive[s])

\* faulty variant of Delivered: the iteration stops after the first sender
DeliveredToFirst(q, subs, alive, ev) ==
    [s \in DOMAIN q |->
        IF subs # <<>> /\ s = Head(subs) /\ alive[s] THEN Append(q[s], ev)
        ELSE q[s]]

\* the queues after unbounded_send(ev) on every sender of subs
Delivered(q, subs, alive, ev) ==
    [s \in DOMAIN q |->
        IF s \in Range(subs) /\ alive[s] THEN Append(q[s], ev) ELSE q[s]]

\* did_subscribe_to_remote_video_track / did_unsubscribe_from_remote_video_track:
\* under the lock, send to every sender and keep those whose send succeeded.
Publish(ev) ==
    /\ queue' = Delivered(queue, subscribers, rxAlive, ev)
    /\ subscribers' = Kept(subscribers, rxAlive)
    /\ log' = Append(log, ev)
    /\ UNCHANGED <<nSubs, rxAlive, received, regAt>>

\* impl Drop for RemoteVideoTrack, run when the last Arc of wrapper w goes:
\* the Arc counts refs and the owned references rel after one Arc of w is dropped.
DropTrackRef(refs, rel, w) ==
    [refs |-> [refs EXCEPT ![w] = @ - 1],
     rel |-> IF refs[w] = 1 THEN [rel EXCEPT ![wrapped[w]] = @ - 1] ELSE rel]

\* dropping the messages evs of a channel
RECURSIVE DropEvents(_, _, _)
DropEvents(evs, refs, rel) ==
    IF evs = <<>> THEN [refs |-> refs, rel |-> rel]
    ELSE LET e == Head(evs)
             d == IF e.type = "Subscribed" THEN DropTrackRef(refs, rel, e.w)
                  ELSE [refs |-> refs, rel |-> rel]
         IN DropEvents(Tail(evs), d.refs, d.rel)

\* faulty variant of WithSender: the new sender replaces the collection
OnlySender(subs, s) == <<s>>

\* lock().push(tx): the collection with the sender s added
WithSender(subs, s) == Append(subs, s)

\* Room::remote_video_track_updates
Register ==
    /\ ~crashed /\ hostRefs > 0 /\ nSubs < MaxSubs
    /\ nSubs' = nSubs + 1
    /\ subscribers' = WithSender(subscribers, nSubs + 1)
    /\ rxAlive' = [rxAlive EXCEPT ![nSubs + 1] = TRUE]
    /\ regAt' = [regAt EXCEPT ![nSubs + 1] = Len(log)]
    /\ Touch
    /\ UNCHANGED <<queue, received, log>>
    /\ UNCHANGED <<hostRefs, strong, weak, alloc, crashed, td, tdBy, tdLog,
                   rawWeakDrops, trackVars, tramp, nInv>>
    /\ UNCHANGED hostVars

\* UnboundedReceiver::next on a non-empty channel; the consumer looks at the
\* update and drops it, and with it the Arc<RemoteVideoTrack> of a Subscribed.
Recv(s) ==
    /\ ~crashed /\ rxAlive[s] /\ queue[s] # <<>>
    /\ LET e == Head(queue[s])
           d == DropEvents(<<e>>, trackRefs, owned)
       IN
        /\ received' = [received EXCEPT ![s] = Append(@, e)]
        /\ queue' = [queue EXCEPT ![s] = Tail(@)]
        /\ trackRefs' = d.refs
        /\ owned' = d.rel
    /\ UNCHANGED <<subscribers, nSubs, rxAlive, regAt, log>>
    /\ UNCHANGED <<roomVars, wrapped, delegateLive, tramp, nInv>>
    /\ UNCHANGED hostVars

\* drop of an UnboundedReceiver: the channel closes and its messages are dropped
DropReceiver(s) ==
    /\ ~crashed /\ rxAlive[s]
    /\ rxAlive' = [rxAlive EXCEPT ![s] = FALSE]
    /\ queue' = [queue EXCEPT ![s] = <<>>]
    /\ LET d == DropEvents(queue[s], trackRefs, owned) IN
        /\ trackRefs' = d.refs
        /\ owned' = d.rel
    /\ UNCHANGED <<subscribers, nSubs, received, regAt, log>>
    /\ UNCHANGED <<roomVars, wrapped, delegateLive, tramp, nInv>>
    /\ UNCHANGED hostVars

\* --------------------------------------------------------------- Arc<Room>

\* Arc::drop by the host; the last one starts the drop of the Room
HostDropRoom ==
    /\ ~crashed /\ hostRefs > 0
    /\ hostRefs' = hostRefs - 1
    /\ strong' = FetchSub(strong)
    /\ Touch
    /\ IF strong = 1 THEN td' = "room_drop" /\ tdBy' = "host"
       ELSE UNCHANGED <<td, tdBy>>
    /\ UNCHANGED <<weak, alloc, crashed, tdLog, rawWeakDrops,
                   fanVars, trackVars, tramp, nInv>>
    /\ UNCHANGED hostVars

\* impl Drop for Room (LKRoomDisconnect, CFRelease(native_room)), then the
\* drop of the field remote_video_track_subscribers: every sender goes.
TdRoomDrop ==
    /\ ~crashed /\ td = "room_drop"
    /\ tdLog' = tdLog \o <<"disconnect", "release_room", "drop_subscribers">>
    /\ owned' = [owned EXCEPT !["room"] = @ - 1]
    /\ subscribers' = <<>>
    /\ td' = "drop_delegate"
    /\ Touch
    /\ UNCHANGED <<hostRefs, strong, weak, alloc, crashed, tdBy, rawWeakDrops,
                   nSubs, rxAlive, queue, received, regAt, log,
                   trackRefs, wrapped, delegateLive, tramp, nInv>>
    /\ UNCHANGED hostVars

\* drop of the field _delegate, impl Drop for RoomDelegate:
\* CFRelease(native_delegate), drop of Weak::from_raw(weak_room)
TdDropDelegate ==
    /\ ~crashed /\ td = "drop_delegate"
    /\ tdLog' = tdLog \o <<"release_delegate", "reclaim_weak">>
    /\ owned' = [owned EXCEPT !["delegate"] = @ - 1]
    /\ delegateLive' = FALSE
    /\ WeakDrop("delegate")
    /\ td' = "drop_weak"
    /\ UNCHANGED <<hostRefs, strong, crashed, tdBy,
                   fanVars, trackRefs, wrapped, tramp, nInv>>
    /\ UNCHANGED hostVars

\* end of Arc::drop_slow: drop of the Weak all strong references share; a
\* trampoline that ran the drop goes on to its return.
TdDropWeak ==
    /\ ~crashed /\ td = "drop_weak"
    /\ weak' = FetchSub(weak)
    /\ alloc' = (alloc /\ weak # 1)
    /\ Touch
    /\ td' = "done"
    /\ tramp' = IF tdBy \in Threads THEN [tramp EXCEPT ![tdBy].pc = "exit"]
                ELSE tramp
    /\ UNCHANGED <<hostRefs, strong, crashed, tdBy, tdLog, rawWeakDrops,
                   fanVars, trackVars, nInv>>
    /\ UNCHANGED hostVars

\* ------------------------------------------------- delegate trampolines
\* A trampoline runs on a native thread.  From its entry to the dispatch into
\* the Room it is one step; it then holds the upgraded Arc<Room> until the end
\* of the `if let`, where other threads can have dropped theirs meanwhile.

Holding(k) == [pc |-> "upgraded", kind |-> k]

\* on_did_subscribe_to_remote_video_track with room.upgrade() = Some:
\* Weak::from_raw, RemoteVideoTrack::new (CFRetain), Weak::upgrade,
\* room.did_subscribe_to_remote_video_track(track): Arc::new(track), one clone
\* per successful send, the local Arc dropped on return.
SubscribeLive(t, pub, tid) ==
    /\ ~crashed /\ tramp[t].pc = "idle" /\ nInv < MaxEvents
    /\ delegateLive
    /\ strong > 0
    /\ nInv' = nInv + 1
    /\ strong' = (strong + 1) % CountMod
    /\ LET w == nInv + 1
           n == Len(Kept(subscribers, rxAlive))
       IN
        /\ wrapped' = [wrapped EXCEPT ![w] = tid]
        /\ Publish(Subscribed(w, tid, pub))
        /\ trackRefs' = [trackRefs EXCEPT ![w] = n]
        /\ owned' = IF n = 0 THEN owned ELSE [owned EXCEPT ![tid] = @ + 1]
    /\ tramp' = [tramp EXCEPT ![t] = Holding("subscribe")]
    /\ Touch
    /\ UNCHANGED <<hostRefs, weak, alloc, crashed, td, tdBy, tdLog,
                   rawWeakDrops, delegateLive>>
    /\ UNCHANGED hostVars

\* on_did_subscribe_to_remote_video_track with room.upgrade() = None: the
\* track is dropped on return (CFRelease), and so is the local Weak.
SubscribeAbsent(t, pub, tid) ==
    /\ ~crashed /\ tramp[t].pc = "idle" /\ nInv < MaxEvents
    /\ delegateLive
    /\ strong = 0
    /\ nInv' = nInv + 1
    /\ owned' = [owned EXCEPT ![tid] = (@ + 1) - 1]
    /\ WeakDrop("subscribe")
    /\ UNCHANGED <<hostRefs, strong, crashed, td, tdBy, tdLog,
                   fanVars, trackRefs, wrapped, delegateLive, tramp>>
    /\ UNCHANGED hostVars

\* on_did_unsubscribe_from_remote_video_track with room.upgrade() = Some
UnsubscribeLive(t, pub, tid) ==
    /\ ~crashed /\ tramp[t].pc = "idle" /\ nInv < MaxEvents
    /\ delegateLive
    /\ strong > 0
    /\ nInv' = nInv + 1
    /\ strong' = (strong + 1) % CountMod
    /\ Publish(Unsubscribed(pub, tid))
    /\ tramp' = [tramp EXCEPT ![t] = Holding("unsubscribe")]
    /\ Touch
    /\ UNCHANGED <<hostRefs, weak, alloc, crashed, td, tdBy, tdLog,
                   rawWeakDrops, trackVars>>
    /\ UNCHANGED hostVars

\* on_did_unsubscribe_from_remote_video_track with room.upgrade() = None:
\* let _ = Weak::into_raw(room)
UnsubscribeAbsent(t, pub, tid) ==
    /\ ~crashed /\ tramp[t].pc = "idle" /\ nInv < MaxEvents
    /\ delegateLive
    /\ strong = 0
    /\ nInv' = nInv + 1
    /\ Touch
    /\ UNCHANGED <<hostRefs, strong, weak, alloc, crashed, td, tdBy, tdLog,
                   rawWeakDrops, fanVars, trackVars, tramp>>
    /\ UNCHANGED hostVars

\* what the return of a trampoline does with its local Weak: the subscribe
\* trampoline drops it, the unsubscribe trampoline gives it back (into_raw).
LocalWeakEnd(k) ==
    IF k = "subscribe" THEN WeakDrop("subscribe")
    ELSE UNCHANGED <<weak, alloc, rawWeakDrops, ub>>

\* faulty variant of DropUpgraded: the upgraded Arc<Room> is kept (forgotten)
KeepUpgraded(n) == n

\* the strong count after the drop of the Arc<Room> that upgrade() returned
DropUpgraded(n) == FetchSub(n)

\* end of the `if let Some(room)`: the upgraded Arc<Room> is dropped.  If it
\* was the last one this thread runs the drop of the Room before it returns;
\* otherwise the trampoline returns.
Leave(t) ==
    /\ ~crashed /\ tramp[t].pc = "upgraded"
    /\ strong' = DropUpgraded(strong)
    /\ IF strong = 1
       THEN /\ td' = "room_drop" /\ tdBy' = t
            /\ tramp' = [tramp EXCEPT ![t].pc = "teardown"]
            /\ Touch
            /\ UNCHANGED <<weak, alloc, rawWeakDrops>>
       ELSE /\ UNCHANGED <<td, tdBy>>
            /\ tramp' = [tramp EXCEPT ![t] = Idle]
            /\ LocalWeakEnd(tramp[t].kind)
    /\ UNCHANGED <<hostRefs, crashed, tdLog, fanVars, trackVars, nInv>>
    /\ UNCHANGED hostVars

\* return of a trampoline that ran the drop of the Room
Exit(t) ==
    /\ ~crashed /\ tramp[t].pc = "exit"
    /\ LocalWeakEnd(tramp[t].kind)
    /\ tramp' = [tramp EXCEPT ![t] = Idle]
    /\ UNCHANGED <<hostRefs, strong, crashed, td, tdBy, tdLog,
                   fanVars, trackVars, nInv>>
    /\ UNCHANGED hostVars

\* Some thread is about to access the Room's ArcInner.
WillTouch ==
    \/ hostRefs > 0
    \/ td \in {"room_drop", "drop_delegate", "drop_weak"}
    \/ delegateLive /\ nInv < MaxEvents
    \/ \E t \in Threads :
        \/ tramp[t].pc = "upgraded"
        \/ tramp[t].pc = "exit" /\ tramp[t].kind = "subscribe"

\* a use after free that aborts the process
Crash ==
    /\ ~crashed /\ ~alloc /\ WillTouch
    /\ crashed' = TRUE
    /\ ub' = TRUE
    /\ UNCHANGED <<hostRefs, strong, weak, alloc, td, tdBy, tdLog,
                   rawWeakDrops, fanVars, trackVars, tramp, nInv>>
    /\ UNCHANGED hostVars

Next ==
    \/ Register
    \/ \E s \in Subs : Recv(s)
    \/ \E s \in Subs : DropReceiver(s)
    \/ HostDropRoom
    \/ TdRoomDrop
    \/ TdDropDelegate
    \/ TdDropWeak
    \/ \E t \in Threads, p \in Publishers, i \in Tracks : SubscribeLive(t, p, i)
    \/ \E t \in Threads, p \in Publishers, i \in Tracks : SubscribeAbsent(t, p, i)
    \/ \E t \in Threads, p \in Publishers, i \in Tracks : UnsubscribeLive(t, p, i)
    \/ \E t \in Threads, p \in Publishers, i \in Tracks : UnsubscribeAbsent(t, p, i)
    \/ \E t \in Threads : Leave(t)
    \/ \E t \in Threads : Exit(t)
    \/ Crash

Spec == Init /\ [][Next]_vars

\* ===================================================================
\* The one-shot completion bridge and display_sources (SpecBridge)
\* ===================================================================

MaxOps == 1          \* one-shot operations in flight at once
MaxDisplays == 2     \* length of the CFArray handed to display_sources::callback
MaxLocalTracks == 1  \* LocalVideoTrack wrappers alive at once
MaxWrappers == 2     \* MacOSDisplay wrappers alive at once

Errors == {"e1", "e2"}           \* error strings of the native layer
ConnectContext == "error connecting to room"
PublishContext == "error publishing video track"

\* the arrays of display handles the native layer can hand over
SourceArrays ==
    UNION {[1 .. n -> Displays] : n \in 0 .. MaxDisplays}

\* Result<()> / Result<Vec<MacOSDisplay>>; NoVal: no value
NoVal == [tag |-> "none", displays |-> <<>>, cause |-> NULL, context |-> NULL]
Ok(ds) == [tag |-> "ok", displays |-> ds, cause |-> NULL, context |-> NULL]
Err(e) == [tag |-> "err", displays |-> <<>>, cause |-> e, context |-> NULL]

\* Err(Canceled), what a Receiver yields once its Sender was dropped without
\* a send; and the outcome of a future whose task panicked
Canceled ==
    [tag |-> "canceled", displays |-> <<>>, cause |-> NULL, context |-> NULL]
Panicked ==
    [tag |-> "panic", displays |-> <<>>, cause |-> NULL, context |-> NULL]

\* the arguments of a trampoline call; array: sources is not null
NoArg == [array |-> FALSE, sources |-> <<>>, error |-> NULL, fired |-> FALSE]
Arg(array, sources, error) ==
    [array |-> array, sources |-> sources, error |-> error, fired |-> TRUE]
NullArg == Arg(FALSE, <<>>, NULL)

\* oneshot::channel(), Box::into_raw(Box::new(tx)): a pending operation
NewOp(kind) ==
    [kind |-> kind,
     ctx |-> TRUE,          \* the boxed Sender is allocated
     rx |-> "pending",      \* the Receiver: pending or dropped
     slot |-> NoVal,        \* the value sent and not yet taken
     arg |-> NoArg]         \* history: what the trampoline was called with

\* the record of an operation that ended: what its trampoline was called
\* with, what its future resolved to (NoVal: it never did), and whether the
\* send failed and was discarded; awaited: rx.await completed
Ended(kind, a, out, lost) ==
    [kind |-> kind, arg |-> a, out |-> out, lost |-> lost, awaited |-> FALSE]

Without(q, k) == SubSeq(q, 1, k - 1) \o SubSeq(q, k + 1, Len(q))

bridgeFrame == <<hostRefs, strong, weak, alloc, ub, td, tdBy, tdLog,
                 rawWeakDrops, fanVars, trackRefs, wrapped, delegateLive,
                 tramp, nInv, hostTracks, closures, lockVars>>

\* faulty variant of DoneResult: the error indicator is not looked at
DoneResultAlwaysOk(error) == Ok(<<>>)

\* done_callback: what is sent for an error indicator
DoneResult(error) == IF error = NULL THEN Ok(<<>>) ELSE Err(error)

\* Result::context(c): an error gets the context c, its cause is kept
WithContext(v, c) == IF v.tag = "err" THEN [v EXCEPT !.context = c] ELSE v

\* faulty variant of Unwrap: a broken channel becomes an ordinary failure
UnwrapAsFailure(v) == IF v = Canceled THEN Err("canceled") ELSE v

\* rx.await.unwrap(): the value sent; a cancelled Receiver panics the task
Unwrap(v) == IF v = Canceled THEN Panicked ELSE v

\* what the future of an operation maps the received value to
Resolved(kind, v) ==
    CASE kind = "connect" -> WithContext(Unwrap(v), ConnectContext)
      [] kind = "publish" -> WithContext(Unwrap(v), PublishContext)
      [] kind = "displays" -> Unwrap(v)

\* faulty variant of AfterFailedSend: the failed send is unwrapped
AfterFailedSendUnwrap(c) == TRUE

\* let _ = tx.send(..) on a dropped Receiver: whether the process has aborted
AfterFailedSend(c) == c

\* faulty variant of Promote: the handle is wrapped without CFRetain
PromoteWithoutRetain(own, d) == own

\* MacOSDisplay::new: CFRetain(ptr)
Promote(own, d) == [own EXCEPT ![d] = @ + 1]

\* impl Drop for MacOSDisplay: CFRelease(self.0)
Demote(own, d) == [own EXCEPT ![d] = @ - 1]

RECURSIVE PromoteAll(_, _)
PromoteAll(own, ds) ==
    IF ds = <<>> THEN own ELSE PromoteAll(Promote(own, Head(ds)), Tail(ds))

\* the number of MacOSDisplay wrappers alive: each holds one reference
RECURSIVE DisplayRefs(_, _)
DisplayRefs(own, ds) ==
    IF ds = {} THEN 0
    ELSE LET d == CHOOSE x \in ds : TRUE
         IN  own[d] + DisplayRefs(own, ds \ {d})

\* the host's displays with the wrappers ds added
RECURSIVE TakeAll(_, _)
TakeAll(held, ds) ==
    IF ds = <<>> THEN held
    ELSE TakeAll([held EXCEPT ![Head(ds)] = @ + 1], Tail(ds))

RECURSIVE DemoteAll(_, _)
DemoteAll(own, ds) ==
    IF ds = <<>> THEN own ELSE DemoteAll(Demote(own, Head(ds)), Tail(ds))

\* Receiver::poll: Poll::Ready once the channel holds a value
Ready(op) == op.slot # NoVal

\* Box::from_raw(tx) then tx.send(v) for operation i, with the references own
\* held once v was built: the value reaches the slot of a pending Receiver;
\* on a dropped Receiver send returns it and it is dropped with its wrappers,
\* which ends the operation.
Send(i, a, v, own) ==
    IF ops[i].rx = "pending"
    THEN /\ ops' = [ops EXCEPT ![i].ctx = FALSE, ![i].arg = a, ![i].slot = v]
         /\ owned' = own
         /\ UNCHANGED <<crashed, last>>
    ELSE /\ ops' = Without(ops, i)
         /\ last' = Ended(ops[i].kind, a, NoVal, TRUE)
         /\ owned' = DemoteAll(own, v.displays)
         /\ crashed' = AfterFailedSend(crashed)

\* Room::connect up to the return of the future
Connect ==
    /\ ~crashed /\ hostRefs > 0 /\ Len(ops) < MaxOps
    /\ ops' = Append(ops, NewOp("connect"))
    /\ UNCHANGED <<crashed, owned, last, hostDisplays, localTracks, bridgeFrame>>

\* Room::publish_video_track(&track) up to the return of the future
PublishVideoTrack ==
    /\ ~crashed /\ hostRefs > 0 /\ Len(ops) < MaxOps /\ localTracks > 0
    /\ ops' = Append(ops, NewOp("publish"))
    /\ UNCHANGED <<crashed, owned, last, hostDisplays, localTracks, bridgeFrame>>

\* display_sources up to the return of the future
DisplaySources ==
    /\ ~crashed /\ Len(ops) < MaxOps
    /\ ops' = Append(ops, NewOp("displays"))
    /\ UNCHANGED <<crashed, owned, last, hostDisplays, localTracks, bridgeFrame>>

\* build_done_callback::done_callback(tx, error), called by the native layer
DoneCallback(i, error) ==
    /\ ~crashed /\ i \in DOMAIN ops
    /\ ops[i].kind \in {"connect", "publish"} /\ ops[i].ctx
    /\ Send(i, Arg(FALSE, <<>>, error), DoneResult(error), owned)
    /\ UNCHANGED <<hostDisplays, localTracks, bridgeFrame>>

\* display_sources::callback(tx, sources, error) with sources = NULL and an
\* error string
DisplayCallbackError(i, error) ==
    /\ ~crashed /\ i \in DOMAIN ops
    /\ ops[i].kind = "displays" /\ ops[i].ctx
    /\ error # NULL
    /\ Send(i, Arg(FALSE, <<>>, error), Err(error), owned)
    /\ UNCHANGED <<hostDisplays, localTracks, bridgeFrame>>

\* display_sources::callback(tx, NULL, NULL): CFString::wrap_under_get_rule
\* panics on the null error, inside an extern "C" function.  Where the build
\* makes that an abort the process ends here (DisplayCallbackNull); where it
\* lets the panic unwind out of the function the boxed Sender is dropped on
\* the way, without a send (DisplayCallbackNullUnwind).
DisplayCallbackNullUnwind(i) ==
    /\ ~crashed /\ i \in DOMAIN ops
    /\ ops[i].kind = "displays" /\ ops[i].ctx
    /\ IF ops[i].rx = "pending"
       THEN /\ ops' = [ops EXCEPT ![i].ctx = FALSE, ![i].arg = NullArg,
                                  ![i].slot = Canceled]
            /\ UNCHANGED last
       ELSE /\ ops' = Without(ops, i)
            /\ last' = Ended("displays", NullArg, NoVal, FALSE)
    /\ UNCHANGED <<crashed, owned, hostDisplays, localTracks, bridgeFrame>>

DisplayCallbackNull(i) ==
    /\ ~crashed /\ i \in DOMAIN ops
    /\ ops[i].kind = "displays" /\ ops[i].ctx
    /\ ops' = Without(ops, i)
    /\ last' = Ended("displays", NullArg, NoVal, FALSE)
    /\ crashed' = TRUE
    /\ UNCHANGED <<owned, hostDisplays, localTracks, bridgeFrame>>

\* display_sources::callback(tx, sources, error) with sources an array: each
\* handle is wrapped by MacOSDisplay::new, error is not looked at
DisplayCallbackSources(i, sources, error) ==
    /\ ~crashed /\ i \in DOMAIN ops
    /\ ops[i].kind = "displays" /\ ops[i].ctx
    /\ DisplayRefs(owned, Displays) + Len(sources) <= MaxWrappers
    /\ Send(i, Arg(TRUE, sources, error), Ok(sources), PromoteAll(owned, sources))
    /\ UNCHANGED <<hostDisplays, localTracks, bridgeFrame>>

\* rx.await completes (the task, suspended on the Receiver until the value
\* is there, is woken or finds it at its first poll): the future resolves,
\* the host takes the displays
Await(i) ==
    /\ ~crashed /\ i \in DOMAIN ops
    /\ ops[i].rx = "pending" /\ Ready(ops[i])
    /\ ops' = Without(ops, i)
    /\ last' = [Ended(ops[i].kind, ops[i].arg,
                      Resolved(ops[i].kind, ops[i].slot), FALSE)
                    EXCEPT !.awaited = TRUE]
    /\ hostDisplays' = TakeAll(hostDisplays, ops[i].slot.displays)
    /\ UNCHANGED <<crashed, owned, localTracks, bridgeFrame>>

\* faulty variant of AfterFutureDrop: the future frees the boxed Sender
FreedWithFuture(c) == FALSE

\* the boxed Sender after the future was dropped: the future holds only the
\* Receiver, and no native function is called to cancel
AfterFutureDrop(c) == c

\* the host drops the future before the trampoline fired: the Receiver goes
DropFutureEarly(i) ==
    /\ ~crashed /\ i \in DOMAIN ops
    /\ ops[i].rx = "pending" /\ ops[i].ctx
    /\ ops' = [ops EXCEPT ![i].rx = "dropped", ![i].ctx = AfterFutureDrop(@)]
    /\ UNCHANGED <<crashed, owned, last, hostDisplays, localTracks, bridgeFrame>>

\* the host drops the future after the trampoline fired: the value that was
\* sent is dropped with the Receiver
DropFutureLate(i) ==
    /\ ~crashed /\ i \in DOMAIN ops
    /\ ops[i].rx = "pending" /\ ~ops[i].ctx
    /\ ops' = Without(ops, i)
    /\ last' = Ended(ops[i].kind, ops[i].arg, NoVal, FALSE)
    /\ owned' = DemoteAll(owned, ops[i].slot.displays)
    /\ UNCHANGED <<crashed, hostDisplays, localTracks, bridgeFrame>>

\* the host drops a MacOSDisplay of handle d
DropDisplay(d) ==
    /\ ~crashed /\ hostDisplays[d] > 0
    /\ hostDisplays' = [hostDisplays EXCEPT ![d] = @ - 1]
    /\ owned' = Demote(owned, d)
    /\ UNCHANGED <<crashed, ops, last, localTracks, bridgeFrame>>

\* LocalVideoTrack::screen_share_for_display(&display):
\* LKCreateScreenShareTrackForDisplay returns an owned handle
ScreenShareForDisplay(d) ==
    /\ ~crashed /\ hostDisplays[d] > 0 /\ localTracks < MaxLocalTracks
    /\ localTracks' = localTracks + 1
    /\ owned' = [owned EXCEPT !["local"] = @ + 1]
    /\ UNCHANGED <<crashed, ops, last, hostDisplays, bridgeFrame>>

\* impl Drop for LocalVideoTrack: CFRelease(self.0)
DropLocalTrack ==
    /\ ~crashed /\ localTracks > 0
    /\ localTracks' = localTracks - 1
    /\ owned' = [owned EXCEPT !["local"] = @ - 1]
    /\ UNCHANGED <<crashed, ops, last, hostDisplays, bridgeFrame>>

NextBridge ==
    \/ Connect
    \/ PublishVideoTrack
    \/ DisplaySources
    \/ \E i \in 1 .. MaxOps, e \in Errors \cup {NULL} : DoneCallback(i, e)
    \/ \E i \in 1 .. MaxOps, e \in Errors : DisplayCallbackError(i, e)
    \/ \E i \in 1 .. MaxOps : DisplayCallbackNull(i)
    \/ \E i \in 1 .. MaxOps : DisplayCallbackNullUnwind(i)
    \/ \E i \in 1 .. MaxOps, a \in SourceArrays, e \in {NULL, "e1"} :
        DisplayCallbackSources(i, a, e)
    \/ \E i \in 1 .. MaxOps : Await(i)
    \/ \E i \in 1 .. MaxOps : DropFutureEarly(i)
    \/ \E i \in 1 .. MaxOps : DropFutureLate(i)
    \/ \E d \in Displays : DropDisplay(d)
    \/ \E d \in Displays : ScreenShareForDisplay(d)
    \/ DropLocalTrack

SpecBridge == Init /\ [][NextBridge]_vars

\* ===================================================================
\* Remote tracks the host holds, and their renderers (SpecTracks)
\* ===================================================================

MaxHostTracks == 2   \* RemoteVideoTrack wrappers the host holds at once
MaxRenderers == 2    \* calls of add_renderer
MaxFrames == 2       \* frames the native layer pushes to one renderer

\* the CFArray LKRoomVideoTracksForRemoteParticipant can return
TrackArrays ==
    UNION {[1 .. n -> Tracks] : n \in 0 .. MaxHostTracks}

tracksFrame == <<roomVars, fanVars, trackRefs, wrapped, delegateLive, tramp,
                 nInv, ops, last, hostDisplays, localTracks, lockVars>>

\* faulty variant of RetainTrack: the borrowed handle is stored as it came
StoreTrackBorrowed(own, h) == own

\* RemoteVideoTrack::new: CFRetain(native_track)
RetainTrack(own, h) == [own EXCEPT ![h] = @ + 1]

RECURSIVE RetainTracks(_, _)
RetainTracks(own, hs) ==
    IF hs = <<>> THEN own ELSE RetainTracks(RetainTrack(own, Head(hs)), Tail(hs))

\* Room::remote_video_tracks(participant_id): a null array gives Vec::new(),
\* otherwise every track of the array is wrapped by RemoteVideoTrack::new
RemoteVideoTracks(array, tracks) ==
    /\ ~crashed /\ hostRefs > 0
    /\ Len(hostTracks) + Len(tracks) <= MaxHostTracks
    /\ array \/ tracks = <<>>
    /\ hostTracks' = hostTracks \o tracks
    /\ owned' = RetainTracks(owned, tracks)
    /\ UNCHANGED <<closures, tracksFrame>>

\* the host drops the Arc<RemoteVideoTrack>: impl Drop for RemoteVideoTrack
DropHostTrack(k) ==
    /\ ~crashed /\ k \in DOMAIN hostTracks
    /\ hostTracks' = Without(hostTracks, k)
    /\ owned' = [owned EXCEPT ![hostTracks[k]] = @ - 1]
    /\ UNCHANGED <<closures, tracksFrame>>

\* RemoteVideoTrack::add_renderer(callback): the closure is boxed,
\* LKVideoRendererCreate returns the renderer, LKVideoTrackAddRenderer gets it
AddRenderer(k) ==
    /\ ~crashed /\ k \in DOMAIN hostTracks /\ Len(closures) < MaxRenderers
    /\ closures' = Append(closures, [boxed |-> TRUE, frames |-> 0,
                                     calls |-> 0, drops |-> 0])
    /\ owned' = [owned EXCEPT !["renderer"] = @ + 1]
    /\ UNCHANGED <<hostTracks, tracksFrame>>

\* faulty variant of AfterFrame: on_frame takes the closure with Box::from_raw
ConsumedByFrame(b) == FALSE

\* the boxed closure after on_frame: `&mut *(callback_data as *mut F)` borrows
AfterFrame(b) == b

\* add_renderer::on_frame(callback_data, frame): the frame is wrapped under
\* the get rule, the closure is called with it (frames: calls by the native
\* layer, calls: calls of the closure)
OnFrame(r) ==
    /\ ~crashed /\ r \in DOMAIN closures
    /\ closures[r].boxed /\ closures[r].frames < MaxFrames
    /\ closures' = [closures EXCEPT ![r].frames = @ + 1, ![r].calls = @ + 1,
                                    ![r].boxed = AfterFrame(@)]
    /\ UNCHANGED <<hostTracks, owned, tracksFrame>>

\* add_renderer::on_drop(callback_data): Box::from_raw frees the closure
RendererOnDrop(r) ==
    /\ ~crashed /\ r \in DOMAIN closures /\ closures[r].boxed
    /\ closures' = [closures EXCEPT ![r].boxed = FALSE, ![r].drops = @ + 1]
    /\ UNCHANGED <<hostTracks, owned, tracksFrame>>

NextTracks ==
    \/ \E array \in BOOLEAN, a \in TrackArrays : RemoteVideoTracks(array, a)
    \/ \E k \in 1 .. MaxHostTracks : DropHostTrack(k)
    \/ \E k \in 1 .. MaxHostTracks : AddRenderer(k)
    \/ \E r \in 1 .. MaxRenderers : OnFrame(r)
    \/ \E r \in 1 .. MaxRenderers : RendererOnDrop(r)

SpecTracks == Init /\ [][NextTracks]_vars

\* ===================================================================
\* Claims checked under Spec
\* ===================================================================

Registered == 1 .. nSubs
Observed(s) == received[s] \o queue[s]
Last(q) == q[Len(q)]

\* C1 (as stated): no trampoline invocation consumes the weak relation, and
\* the raw weak representation is reclaimed and dropped exactly once in total,
\* by the drop of the RoomDelegate: every drop of a Weak rebuilt from the raw
\* pointer is the delegate's, and there is at most one.
C1_RawWeakDroppedOnceByDelegate ==
    /\ Len(rawWeakDrops) <= 1
    /\ \A i \in DOMAIN rawWeakDrops : rawWeakDrops[i] = "delegate"

\* C2: every subscriber whose receiver is alive observes (has received, or
\* has queued to receive, in this order) exactly the events published since
\* it registered, in the order the publishes were called.
C2_ObservesPublishedInOrder ==
    \A s \in Registered :
        rxAlive[s] => Observed(s) = SubSeq(log, regAt[s] + 1, Len(log))

\* C2 witness: two subscribers registered before two different events were
\* published, and one of them has received both.
C2_Witness ==
    /\ nSubs = 2 /\ Len(log) = 2 /\ log[1] # log[2]
    /\ \E s \in Registered :
        rxAlive[s] /\ regAt[s] = 0 /\ received[s] = log

\* C3: a publish (a step that extends log) removes from the collection
\* exactly the senders whose receiver has been dropped, and every sender
\* whose receiver is alive gets the published event appended to its queue
\* and stays in the collection.
C3_PublishPrunesDeadKeepsLive ==
    [][Len(log') = Len(log) + 1 =>
        /\ \A s \in Subs :
            s \in Range(subscribers') <=> (s \in Range(subscribers) /\ rxAlive[s])
        /\ \A s \in Range(subscribers) :
            rxAlive[s] => queue'[s] = Append(queue[s], Last(log'))
        /\ crashed' = crashed]_vars

\* C3 witness: one publish so far; it removed a subscriber whose receiver
\* had been dropped and delivered to the other, which is still registered.
C3_Witness ==
    /\ Len(log) = 1 /\ td = "none"
    /\ \E s1, s2 \in Registered :
        /\ regAt[s1] = 0 /\ ~rxAlive[s1] /\ s1 \notin Range(subscribers)
        /\ rxAlive[s2] /\ s2 \in Range(subscribers) /\ queue[s2] = log

\* trampoline invocations whose room.upgrade() yielded None: each of the
\* others published one event
AbsentInvocations == nInv - Len(log)

\* C10 (as stated): when every trampoline so far was invoked after the last
\* strong reference was gone, no event has reached any subscriber, every
\* native track reference taken has been released again, and no error or
\* crash has occurred.
C10_AbsentUpgradeIsHarmless ==
    (nInv > 0 /\ AbsentInvocations = nInv /\ \A t \in Threads : tramp[t].pc = "idle") =>
        /\ \A s \in Subs : Observed(s) = <<>>
        /\ \A h \in Tracks : owned[h] = 0
        /\ ~ub /\ ~crashed

\* ===================================================================
\* Claims checked under SpecBridge
\* ===================================================================

\* the number of wrappers of handle d in the sequence ds
RECURSIVE Count(_, _)
Count(ds, d) ==
    IF ds = <<>> THEN 0
    ELSE (IF Head(ds) = d THEN 1 ELSE 0) + Count(Tail(ds), d)

\* the wrappers of d waiting in the channels of the first i operations
RECURSIVE SlotCount(_, _)
SlotCount(i, d) ==
    IF i = 0 THEN 0 ELSE Count(ops[i].slot.displays, d) + SlotCount(i - 1, d)

\* C5: a connect or publish_video_track future that resolved after its
\* trampoline was called with a null error resolved to success; called with
\* an error string it resolved to a failure whose cause is that string.  The
\* value a trampoline sent waits in the channel until the future takes it.
C5_DoneCallbackDecidesResult ==
    /\ (last.kind \in {"connect", "publish"} /\ last.out # NoVal) =>
        /\ last.arg.fired
        /\ last.arg.error = NULL => last.out.tag = "ok"
        /\ last.arg.error # NULL =>
            last.out.tag = "err" /\ last.out.cause = last.arg.error
    /\ \A i \in DOMAIN ops :
        (ops[i].kind \in {"connect", "publish"} /\ ops[i].arg.fired
            /\ ops[i].rx = "pending") =>
            ops[i].slot.tag = (IF ops[i].arg.error = NULL THEN "ok" ELSE "err")

\* C5 witness: a publish_video_track future resolved to the failure "e2"
\* while a connect that was called back without error waits to be resolved
C5_Witness ==
    /\ last.kind = "publish" /\ last.arg.error = "e2"
    /\ last.out.tag = "err" /\ last.out.cause = "e2"
    /\ \E i \in DOMAIN ops :
        ops[i].kind = "connect" /\ ops[i].arg.fired /\ ops[i].slot.tag = "ok"

LateCallback(i) ==
    /\ ops[i].rx = "dropped" /\ ops' = Without(ops, i)
    /\ last'.arg # NullArg

C7_FailuresCarryContext ==
    last.out.tag = "err" => last.out.context # NULL

\* C8: a display_sources future whose trampoline got an error string (and no
\* array) resolved to a failure with that string and no display; one whose
\* trampoline got an array of K handles (and no error) resolved to K wrappers
\* of those handles; and every MacOSDisplay wrapper that exists (held by the
\* host or waiting in a channel) has a reference of its own on its handle.
C8_DisplaysOwnedIndependently ==
    /\ (last.kind = "displays" /\ last.out # NoVal) =>
        /\ (~last.arg.array /\ last.arg.error # NULL) =>
            /\ last.out.tag = "err"
            /\ last.out.cause = last.arg.error
            /\ last.out.displays = <<>>
        /\ (last.arg.array /\ last.arg.error = NULL) =>
            /\ last.out.tag = "ok"
            /\ last.out.displays = last.arg.sources
    /\ \A d \in Displays :
        owned[d] = hostDisplays[d] + SlotCount(Len(ops), d)

\* C8 witness: an enumeration gave two wrappers of the same display and the
\* host has dropped one of the two
C8_Witness ==
    /\ last.kind = "displays" /\ last.out.tag = "ok"
    /\ last.out.displays = <<"d1", "d1">>
    /\ hostDisplays["d1"] = 1 /\ owned["d1"] = 1 /\ ops = <<>>

\* C9 (as stated): for display_sources the error indicator decides: a null
\* error never aborts and resolves to success, an error string resolves to a
\* failure, whatever sources is.
C9_ErrorIndicatorDecides ==
    (last.kind = "displays" /\ last.arg.fired) =>
        /\ last.arg.error = NULL =>
            ~crashed /\ (last.out # NoVal => last.out.tag = "ok")
        /\ last.arg.error # NULL =>
            (last.out # NoVal => last.out.tag = "err")

\* ===================================================================
\* Claims checked under SpecTracks
\* ===================================================================

\* no RemoteVideoTrack wrapper and no renderer closure is left
NoTrackWrapperLeft ==
    hostTracks = <<>> /\ \A r \in DOMAIN closures : ~closures[r].boxed

\* C4 (as stated): every creation or promotion of a native handle is matched
\* by exactly one release: no handle is released more often than it was
\* acquired, and once the wrappers of the tracks and renderers are gone none
\* of their handles is still owned.
C4_EveryAcquisitionReleasedOnce ==
    /\ \A h \in Handles : owned[h] >= 0
    /\ NoTrackWrapperLeft => \A h \in Tracks \cup {"renderer"} : owned[h] = 0

\* ===================================================================
\* Further claims checked under Spec
\* ===================================================================

\* the Subscribed events of the sequence q, in order
SubscribedIn(q) == SelectSeq(q, LAMBDA e : e.type = "Subscribed")

\* C11 (as stated): while the host holds the Room and no trampoline is
\* running, a subscriber registered before the first invocation has observed
\* one Subscribed event per subscribe invocation, in invocation order, and
\* the Room is still valid: its allocation is live and no freed memory was
\* touched, however many subscribe invocations have returned.
C11_SubscribesDeliveredRoomStaysUsable ==
    (hostRefs > 0 /\ \A t \in Threads : tramp[t].pc = "idle") =>
        /\ \A s \in Registered :
            (rxAlive[s] /\ regAt[s] = 0) =>
                SubscribedIn(Observed(s)) = SubscribedIn(log)
        /\ alloc /\ ~ub

\* the trampolines that hold the Arc<Room> their upgrade() returned
Upgraded == {t \in Threads : tramp[t].pc = "upgraded"}

\* C17: the strong reference a trampoline gets from room.upgrade() is dropped
\* before the trampoline returns: the strong count is always the number of
\* references the host holds plus one per trampoline that is inside its
\* `if let`, so after every invocation it is back to what the host holds,
\* and nothing is kept across calls.
C17_UpgradedReferenceReleased ==
    /\ strong = hostRefs + Cardinality(Upgraded)
    /\ (\A t \in Threads : tramp[t].pc = "idle") => strong = hostRefs

\* C17 witness: two invocations, one subscribe and one unsubscribe, have
\* returned while the host holds its reference, and the count is 1 again
C17_Witness ==
    /\ nInv = 2 /\ Len(log) = 2 /\ log[1].type # log[2].type
    /\ \A t \in Threads : tramp[t].pc = "idle"
    /\ hostRefs = 1 /\ strong = 1

\* q is p with something (or nothing) appended
IsPrefix(p, q) == Len(p) <= Len(q) /\ SubSeq(q, 1, Len(p)) = p

\* C18: while the Room exists (its drop has not begun) a step changes the
\* subscriber collection only by appending one sender (a registration) or by
\* removing exactly the senders whose receiver was already dropped (a
\* publish); the step that drops a receiver leaves the collection as it is;
\* and no step at all takes an event away from a receiver that stays alive:
\* what it has received or has queued only grows at the end.
C18_CollectionChangesOnlyTwoWays ==
    [][/\ (td = "none" /\ subscribers' # subscribers) =>
            \/ /\ Len(subscribers') = Len(subscribers) + 1
               /\ IsPrefix(subscribers, subscribers')
               /\ log' = log
            \/ /\ subscribers' = SelectSeq(subscribers, LAMBDA s : rxAlive[s])
               /\ Len(log') = Len(log) + 1
       /\ \A s \in Subs :
            /\ (rxAlive[s] /\ ~rxAlive'[s]) => subscribers' = subscribers
            /\ (rxAlive[s] /\ rxAlive'[s]) => IsPrefix(Observed(s), Observed(s)')
      ]_vars

\* C18 witness: a sender whose receiver was dropped is still in the
\* collection, next to a live one that has an event queued
C18_Witness ==
    /\ td = "none"
    /\ \E s1, s2 \in Range(subscribers) :
        ~rxAlive[s1] /\ rxAlive[s2] /\ queue[s2] # <<>>

\* the steps of the drop of the Room, in the order of the claim
TeardownOrder ==
    <<"disconnect", "release_room", "drop_subscribers", "release_delegate",
      "reclaim_weak">>

Published(kind, a) ==
    IF kind \in {"connect", "publish"} THEN DoneResult(a.error)
    ELSE IF a.array THEN Ok(a.sources) ELSE Err(a.error)

\* C12 (as stated): a future resolves if and only if its completion
\* trampoline has fired.  An operation whose rx.await completed had its
\* trampoline called and resolved to what the trampoline published; before
\* the trampoline fires there is nothing to resolve to; and once it fired
\* with the receiver still there the published result is ready for the
\* await, whenever the callback came (inside the entry point or later from
\* another thread); a trampoline that fired never ends the process instead.
C12_ResolvesExactlyAfterCallback ==
    /\ last.awaited =>
        /\ last.arg.fired
        /\ last.out = Resolved(last.kind, Published(last.kind, last.arg))
    /\ \A i \in DOMAIN ops :
        /\ ~ops[i].arg.fired => ~Ready(ops[i])
        /\ (ops[i].arg.fired /\ ops[i].rx = "pending") =>
            ops[i].slot = Published(ops[i].kind, ops[i].arg)
    /\ last.arg.fired => ~crashed

\* the one-shot operations
Kinds == {"connect", "publish", "displays"}

C14_ContextFreedOnlyByTrampoline ==
    /\ \A i \in DOMAIN ops :
        /\ ops[i].ctx = ~ops[i].arg.fired
        /\ ops[i].rx = "dropped" => ops[i].ctx
    /\ last.kind # "none" => last.arg.fired

\* C14 witness: the trampoline of an operation whose future had been dropped
\* fired and freed its context, and the context of a later operation whose
\* future was dropped is still allocated
C14_Witness ==
    /\ last.lost /\ last.arg.fired
    /\ \E i \in DOMAIN ops : ops[i].rx = "dropped" /\ ops[i].ctx

\* ===================================================================
\* Further claims checked under SpecTracks
\* ===================================================================

\* C15: for every renderer, each per-frame trampoline call has called the
\* boxed closure exactly once and left it allocated; the closure is freed by
\* the teardown trampoline and by nothing else (not by a frame, not by the
\* host dropping the RemoteVideoTrack), and at most once.
C15_ClosureFreedOnlyByTeardown ==
    \A r \in DOMAIN closures :
        /\ closures[r].calls = closures[r].frames
        /\ closures[r].boxed = (closures[r].drops = 0)
        /\ closures[r].drops <= 1

\* C15 witness: the host has dropped every RemoteVideoTrack; the closure of
\* one renderer got two frames and is still allocated, that of another was
\* freed by the teardown trampoline
C15_Witness ==
    /\ hostTracks = <<>>
    /\ \E r \in DOMAIN closures :
        closures[r].frames = 2 /\ closures[r].calls = 2 /\ closures[r].boxed
    /\ \E r \in DOMAIN closures : ~closures[r].boxed /\ closures[r].drops = 1

\* ===================================================================
\* Every way a native handle gets into a wrapper (SpecHandles)
\* ===================================================================

\* The handles of the three families are disjoint, so the steps that store
\* or drop a wrapper are put side by side: remote tracks from the subscribe
\* trampoline and from remote_video_tracks, displays from the enumeration,
\* the screen-share track, and the Room with its delegate from Init.
NextHandles ==
    \/ Register
    \/ \E s \in Subs : Recv(s)
    \/ \E t \in Threads, p \in Publishers, i \in Tracks : SubscribeLive(t, p, i)
    \/ \E t \in Threads : Leave(t)
    \/ \E a \in TrackArrays : RemoteVideoTracks(TRUE, a)
    \/ \E k \in 1 .. MaxHostTracks : DropHostTrack(k)
    \/ DisplaySources
    \/ \E i \in 1 .. MaxOps, a \in SourceArrays : DisplayCallbackSources(i, a, NULL)
    \/ \E i \in 1 .. MaxOps : Await(i)
    \/ \E d \in Displays : DropDisplay(d)
    \/ \E d \in Displays : ScreenShareForDisplay(d)
    \/ DropLocalTrack

SpecHandles == Init /\ [][NextHandles]_vars

\* the RemoteVideoTrack wrappers of handle h that travel in Subscribed events
EventWrappers(h) ==
    Cardinality({w \in Wrappers : wrapped[w] = h /\ trackRefs[w] > 0})

\* C16: the references this layer holds on a handle are exactly one per
\* wrapper that stores it.  For the handles that come under the borrow rule
\* (remote tracks, displays) each wrapper added one reference of its own
\* before storing the handle; for the handles that come under the create
\* rule (room, delegate, screen-share track) the wrapper holds the reference
\* it was given and nothing was added.
C16_OneReferencePerWrapper ==
    /\ \A h \in Tracks : owned[h] = Count(hostTracks, h) + EventWrappers(h)
    /\ \A d \in Displays : owned[d] = hostDisplays[d] + SlotCount(Len(ops), d)
    /\ owned["local"] = localTracks
    /\ owned["room"] = (IF td \in {"none", "room_drop"} THEN 1 ELSE 0)
    /\ owned["delegate"] = (IF delegateLive THEN 1 ELSE 0)

\* C16 witness: the track t1 is stored twice, once from remote_video_tracks
\* and once in a Subscribed event, a display is stored once, and a
\* screen-share track exists
C16_Witness ==
    /\ Count(hostTracks, "t1") = 1 /\ EventWrappers("t1") = 1
    /\ owned["t1"] = 2
    /\ \E d \in Displays : hostDisplays[d] = 1 /\ owned[d] = 1
    /\ localTracks = 1 /\ owned["local"] = 1
    /\ owned["room"] = 1 /\ owned["delegate"] = 1

\* ===================================================================
\* The subscriber lock, step by step (SpecLock)
\* ===================================================================
\* Spec takes a publish as one step.  Here it is the steps of
\* `subscribers.lock().retain(|tx| tx.unbounded_send(..).is_ok())` on one of
\* several threads: the lock is taken, the senders are visited one by one,
\* the kept ones are written back and the lock is released.

lockFrame == <<roomVars, delegateLive, tramp, nInv, ops, last, hostDisplays,
               localTracks, hostTracks, closures>>

\* faulty variant of LockFree: the Vec is not behind a Mutex
LockIgnored(l) == TRUE

\* Mutex::lock returns once no other thread holds the lock
LockFree(l) == l = "free"

\* did_subscribe_to_remote_video_track(track) (type = "Subscribed":
\* RemoteVideoTrack::new has retained the handle, Arc::new(track)) or
\* did_unsubscribe_from_remote_video_track(pub, tid), up to lock()
BeginPublish(t, type, pub, tid) ==
    /\ ~crashed /\ hostRefs > 0
    /\ iter[t].pc = "idle" /\ Len(log) < MaxEvents
    /\ LockFree(lock)
    /\ lock' = t
    /\ LET w == Len(log) + 1
           ev == IF type = "Subscribed" THEN Subscribed(w, tid, pub)
                 ELSE Unsubscribed(pub, tid)
       IN
        /\ iter' = [iter EXCEPT ![t].pc = "iterating", ![t].ev = ev,
                                ![t].at = 1, ![t].kept = <<>>]
        /\ log' = Append(log, ev)
        /\ IF type = "Subscribed"
           THEN /\ wrapped' = [wrapped EXCEPT ![w] = tid]
                /\ trackRefs' = [trackRefs EXCEPT ![w] = 1]
                /\ owned' = [owned EXCEPT ![tid] = @ + 1]
           ELSE UNCHANGED <<wrapped, trackRefs, owned>>
    /\ UNCHANGED <<subscribers, nSubs, rxAlive, queue, received, regAt>>
    /\ UNCHANGED lockFrame

\* one call of the retain closure: unbounded_send on the next sender, which
\* is kept if the send succeeded (for Subscribed a clone of the Arc is sent)
SendNext(t) ==
    /\ ~crashed /\ iter[t].pc = "iterating"
    /\ iter[t].at <= Len(subscribers)
    /\ LET s == subscribers[iter[t].at]
           ev == iter[t].ev
       IN
        IF rxAlive[s]
        THEN /\ queue' = [queue EXCEPT ![s] = Append(@, ev)]
             /\ iter' = [iter EXCEPT ![t].at = @ + 1,
                                     ![t].kept = Append(@, s)]
             /\ trackRefs' = IF ev.type = "Subscribed"
                             THEN [trackRefs EXCEPT ![ev.w] = @ + 1]
                             ELSE trackRefs
        ELSE /\ iter' = [iter EXCEPT ![t].at = @ + 1]
             /\ UNCHANGED <<queue, trackRefs>>
    /\ UNCHANGED <<subscribers, nSubs, rxAlive, received, regAt, log>>
    /\ UNCHANGED <<lock, wrapped, owned>>
    /\ UNCHANGED lockFrame

\* end of retain: the Vec holds the kept senders, the guard is dropped, and
\* on return the local Arc of a Subscribed track
EndPublish(t) ==
    /\ ~crashed /\ iter[t].pc = "iterating"
    /\ iter[t].at > Len(subscribers)
    /\ subscribers' = iter[t].kept
    /\ lock' = "free"
    /\ iter' = [iter EXCEPT ![t] = [IdleIter EXCEPT !.n = iter[t].n + 1]]
    /\ IF iter[t].ev.type = "Subscribed"
       THEN LET d == DropTrackRef(trackRefs, owned, iter[t].ev.w) IN
             /\ trackRefs' = d.refs
             /\ owned' = d.rel
       ELSE UNCHANGED <<trackRefs, owned>>
    /\ UNCHANGED <<nSubs, rxAlive, queue, received, regAt, log, wrapped>>
    /\ UNCHANGED lockFrame

\* remote_video_track_updates on the host thread: lock(), push(tx), unlock
RegisterLocked == LockFree(lock) /\ Register

NextLock ==
    \/ RegisterLocked
    \/ \E t \in LockThreads, ty \in {"Subscribed", "Unsubscribed"},
          p \in Publishers, i \in Tracks : BeginPublish(t, ty, p, i)
    \/ \E t \in LockThreads : SendNext(t)
    \/ \E t \in LockThreads : EndPublish(t)
    \/ \E s \in Subs : DropReceiver(s)

SpecLock == Init /\ [][NextLock]_vars

\* the threads inside retain()
Iterating == {t \in LockThreads : iter[t].pc = "iterating"}

\* 1 if a publish in progress has not reached the sender s yet, else 0
NotYet(s) ==
    IF \E t \in Iterating :
        \E k \in iter[t].at .. Len(subscribers) : subscribers[k] = s
    THEN 1 ELSE 0

\* C19: publishes and registrations on different threads are serialized by
\* the lock, held for the whole iteration: at most one thread is inside
\* retain(), and every live subscriber has observed exactly the events whose
\* publish took the lock after its registration, in the order the lock was
\* taken, short of the one in progress that has not reached it yet.  So all
\* subscribers see two publishes in the same order, and a registration gets
\* an event whole or not at all.
C19_PublishesSerializedByLock ==
    /\ Cardinality(Iterating) <= 1
    /\ (lock = "free") = (Iterating = {})
    /\ \A s \in Registered :
        rxAlive[s] =>
            Observed(s) = SubSeq(log, regAt[s] + 1, Len(log) - NotYet(s))

\* C19 witness: thread n1 has completed a publish; thread n2 is inside its
\* own and has sent to the first of two live subscribers, not yet to the
\* second
C19_Witness ==
    /\ iter["n1"].n = 1 /\ iter["n2"].pc = "iterating" /\ iter["n2"].at = 2
    /\ Len(subscribers) = 2 /\ \A s \in Range(subscribers) : rxAlive[s]
    /\ Observed(subscribers[1]) = log /\ Len(log) = 2
    /\ Observed(subscribers[2]) = <<log[1]>>

====
